---------------------------- MODULE Spec2Model ----------------------------
(***************************************************************************)
(* volume_id_probe_ntfs (udev-114, extras/volume_id/lib/ntfs.c) as a state *)
(* machine over a byte-level image of the probed device.                   *)
(*                                                                         *)
(* The probe overlays packed structs on buffers returned by                *)
(* volume_id_get_buffer.  A buffer is modelled as a view of `len' valid    *)
(* bytes followed by memory that is not part of the view: a read at an     *)
(* index >= len is an out-of-bounds read of the C program.  Its outcome is *)
(* chosen by the environment: the bytes that happen to follow the view     *)
(* (when that memory is mapped) or a fault that kills the process          *)
(* (pc = "crashed").                                                       *)
(*                                                                         *)
(* 32-bit on-disk fields are kept as pairs [lo, hi] of 16-bit halves, so   *)
(* that every value of the field (0xffffffff included) is representable.   *)
(***************************************************************************)
EXTENDS Integers, Sequences, FiniteSets, TLC

----------------------------------------------------------------------------
(* Bounds of the model (not program constants).                            *)

\* longest attribute chain written into a crafted metadata record
MaxAttrs == 2
\* number of explicit bytes of a crafted record image (zero beyond)
ContentLen == 176
\* bytes of mapped memory that may follow a returned view
SlackBytes == 4096

----------------------------------------------------------------------------
(* Program constants.                                                      *)

MFT_RECORD_VOLUME == 3
VOLUME_ID_LABEL_SIZE == 64

MFT_RECORD_ATTR_VOLUME_NAME == [lo |-> 96, hi |-> 0]
MFT_RECORD_ATTR_VOLUME_INFO == [lo |-> 112, hi |-> 0]
MFT_RECORD_ATTR_OBJECT_ID == [lo |-> 64, hi |-> 0]
MFT_RECORD_ATTR_END == [lo |-> 65535, hi |-> 65535]

\* "NTFS" and "FILE" as bytes
NtfsTag == <<78, 84, 70, 83>>
FileTag == <<70, 73, 76, 69>>

\* sizeof(struct file_attribute), packed
AttrHeaderSize == 22
\* offsetof(struct file_attribute, value_len) and (.., value_offset)
AttrValueLenAt == 16
AttrValueOffsetAt == 20
\* offsetof(struct master_file_table_record, attrs_offset)
MftrAttrsOffsetAt == 20
\* offsetof(struct volume_info, major_ver)
InfoMajorAt == 8

----------------------------------------------------------------------------
(* Byte helpers.                                                           *)

RECURSIVE LeValue(_)
\* little-endian value of a byte sequence (Horner form)
LeValue(bytes) ==
    IF bytes = <<>> THEN 0 ELSE Head(bytes) + 256 * LeValue(Tail(bytes))

Le16Bytes(v) == <<v % 256, (v \div 256) % 256>>
Le32Bytes(u) == Le16Bytes(u.lo) \o Le16Bytes(u.hi)

Zeros(n) == [i \in 1..n |-> 0]

\* mem with `bytes' written at 0-based offset off (writes past the end drop)
Place(mem, off, bytes) ==
    [i \in 1..Len(mem) |->
        IF i - 1 >= off /\ i - 1 < off + Len(bytes)
        THEN bytes[i - off] ELSE mem[i]]

U32(lo, hi) == [lo |-> lo, hi |-> hi]

----------------------------------------------------------------------------
(* The probed device: what the Buffer Source can return.                   *)

\* int8_t value of a raw byte (two's complement)
Int8(b) == IF b >= 128 THEN b - 256 ELSE b

\* struct file_attribute as laid out on disk (packed, little-endian)
AttrHeaderBytes(t) ==
    Le32Bytes(t.type) \o Le32Bytes(t.len) \o <<0, 0>> \o Le16Bytes(0)
        \o Le16Bytes(0) \o Le16Bytes(0) \o Le32Bytes(t.val_len)
        \o Le16Bytes(t.val_off)

\* struct volume_info as laid out on disk, followed by the 2 flag bytes
InfoPayload(major, minor) == <<9, 9, 0, 0, 0, 0, 0, 0, major, minor, 0, 0>>

\* "DATA" as 16-bit little-endian code units
DataName == <<68, 0, 65, 0, 84, 0, 65, 0>>
LongName == [i \in 1..80 |-> IF i % 2 = 1 THEN 65 + ((i \div 2) % 26) ELSE 0]

Attr(type, len, val_off, val_len, payload) ==
    [type |-> type, len |-> len, val_off |-> val_off, val_len |-> val_len,
     payload |-> payload]

InfoAttr(major, minor) ==
    Attr(MFT_RECORD_ATTR_VOLUME_INFO, U32(40, 0), 24, U32(12, 0),
         InfoPayload(major, minor))
NameAttr == Attr(MFT_RECORD_ATTR_VOLUME_NAME, U32(32, 0), 24, U32(8, 0), DataName)
EndAttr == Attr(MFT_RECORD_ATTR_END, U32(8, 0), 0, U32(0, 0), <<>>)

\* the attribute images the crafted records are built from: two versions,
\* a name, a name longer than the label, a name with value_len 0xffffffff,
\* values far outside the record, the end marker, a zero total length, a
\* total length with bits above the low 16, a total length of 0xffff
AttrTemplates ==
    { InfoAttr(3, 1),
      InfoAttr(1, 20),
      NameAttr,
      Attr(MFT_RECORD_ATTR_VOLUME_NAME, U32(104, 0), 24, U32(80, 0), LongName),
      Attr(MFT_RECORD_ATTR_VOLUME_NAME, U32(32, 0), 24, U32(65535, 65535), DataName),
      Attr(MFT_RECORD_ATTR_VOLUME_INFO, U32(32, 0), 65535, U32(12, 0), <<>>),
      Attr(MFT_RECORD_ATTR_VOLUME_NAME, U32(8, 0), 1000, U32(8, 0), <<>>),
      EndAttr,
      Attr(MFT_RECORD_ATTR_VOLUME_NAME, U32(0, 0), 24, U32(8, 0), DataName),
      Attr(MFT_RECORD_ATTR_OBJECT_ID, U32(24, 1), 24, U32(0, 0), <<>>),
      Attr(MFT_RECORD_ATTR_VOLUME_INFO, U32(65535, 0), 24, U32(12, 0), InfoPayload(3, 1)) }

RECURSIVE ChainsOf(_)
\* all chains of exactly n templates
ChainsOf(n) ==
    IF n = 0 THEN { <<>> }
    ELSE { <<t>> \o c : t \in AttrTemplates, c \in ChainsOf(n - 1) }

\* a version, then the end marker, then a name the walk must not reach
EndBeforeName == <<InfoAttr(3, 1), EndAttr, NameAttr>>

Chains == UNION { ChainsOf(n) : n \in 0..MaxAttrs } \cup { EndBeforeName }

PlaceAttr(mem, at, t) ==
    Place(Place(mem, at + t.val_off, t.payload), at, AttrHeaderBytes(t))

RECURSIVE PlaceChain(_, _, _)
\* each attribute starts where the previous one's 16-bit length ends
PlaceChain(mem, at, chain) ==
    IF chain = <<>> THEN mem
    ELSE PlaceChain(PlaceAttr(mem, at, Head(chain)), at + Head(chain).len.lo,
                    Tail(chain))

\* struct master_file_table_record followed by its attributes
RecordImage(src) ==
    PlaceChain(
        Place(Place(Zeros(ContentLen), 0, src.magic),
              MftrAttrsOffsetAt, Le16Bytes(src.attrs_offset)),
        src.attrs_offset, src.chain)

RecordSource(magic, attrs_offset, chain) ==
    [magic |-> magic, attrs_offset |-> attrs_offset, chain |-> chain]

\* struct ntfs_super_block: the fields the probe reads
BootSector(oem, bps, spc, mftc, cpr, serial) ==
    [oem_id |-> oem, bytes_per_sector |-> bps, sectors_per_cluster |-> spc,
     mft_cluster_location |-> mftc, cluster_per_mft_record |-> cpr,
     volume_serial |-> serial]

OemNtfs == <<78, 84, 70, 83, 32, 32, 32, 32>>
OemIds ==
    { OemNtfs,
      <<78, 84, 70, 83, 0, 0, 0, 0>>,
      <<78, 84, 70, 81, 32, 32, 32, 32>>,
      <<77, 83, 68, 79, 83, 53, 46, 48>>,
      <<32, 78, 84, 70, 83, 32, 32, 32>> }

Serials == { <<1, 2, 3, 4, 5, 6, 7, 8>>, <<255, 0, 0, 0, 0, 0, 0, 128>> }

SectorSizes == { <<0, 0>>, <<16, 0>>, <<0, 2>> }
ClusterFactors == { 0, 1, 2 }
MftClusters == { <<0, 0, 0, 0, 0, 0, 0, 0>>, <<4, 0, 0, 0, 0, 0, 0, 0>> }
\* raw record-size bytes: 0, 1, 2, 4, -1, -6, -10, -32, -33, -128
RecordSizeBytes == { 0, 1, 2, 4, 255, 250, 246, 224, 223, 128 }

Offsets == { 0, 8192 }

\* where the on-disk convention puts metadata record 3 of the volume
VolumeRecordAddr(o, boot) ==
    LET bps == LeValue(boot.bytes_per_sector)
        cl == boot.sectors_per_cluster * bps
        b == Int8(boot.cluster_per_mft_record)
        rs == IF b >= 0 THEN b * cl ELSE IF -b <= 30 THEN 2 ^ (-b) ELSE 0
    IN o + LeValue(boot.mft_cluster_location) * cl + 3 * rs

Device(boot_avail, boot, rec_avail, o, src, slack, fill) ==
    [off |-> o, boot_avail |-> boot_avail, boot |-> boot,
     rec_avail |-> rec_avail, rec_addr |-> VolumeRecordAddr(o, boot), src |-> src,
     image |-> RecordImage(src), slack |-> slack, fill |-> fill]

GoodSource ==
    RecordSource(FileTag, 56, <<InfoAttr(3, 1), NameAttr>>)

\* memory after a view: unmapped, or mapped and holding 0x00 / 0xff
Memories == { <<0, 0>>, <<SlackBytes, 0>>, <<SlackBytes, 255>> }

\* signature family: every name field, boot sector present or not
SignatureDevices ==
    { Device(ba, BootSector(oem, <<0, 2>>, 1, <<4, 0, 0, 0, 0, 0, 0, 0>>, 246, s),
             TRUE, o, GoodSource, 0, 0) :
        ba \in BOOLEAN, oem \in OemIds, s \in Serials, o \in Offsets }

\* geometry family: every combination of the geometry fields
GeometryDevices ==
    { Device(TRUE, BootSector(OemNtfs, bps, spc, mc, cpr, <<1, 2, 3, 4, 5, 6, 7, 8>>),
             ra, 0, RecordSource(mg, 56, GoodSource.chain), m[1], m[2]) :
        bps \in SectorSizes, spc \in ClusterFactors, mc \in MftClusters,
        cpr \in RecordSizeBytes, ra \in BOOLEAN, mg \in { FileTag },
        m \in { <<0, 0>>, <<SlackBytes, 0>> } }

\* record family: crafted records of 64 and 1024 bytes
RecordDevices ==
    { Device(TRUE, BootSector(OemNtfs, <<0, 2>>, 1, <<4, 0, 0, 0, 0, 0, 0, 0>>, cpr,
                              <<1, 2, 3, 4, 5, 6, 7, 8>>),
             TRUE, 0, RecordSource(FileTag, ao, c), m[1], m[2]) :
        cpr \in { 250, 246 }, ao \in { 20, 56, 60, 65535 }, c \in Chains,
        m \in Memories }
    \cup
    { Device(TRUE, BootSector(OemNtfs, <<0, 2>>, 1, <<4, 0, 0, 0, 0, 0, 0, 0>>, 246,
                              <<1, 2, 3, 4, 5, 6, 7, 8>>),
             TRUE, 0, RecordSource(<<66, 65, 65, 68>>, 56, GoodSource.chain), 0, 0) }

Devices == SignatureDevices \cup GeometryDevices \cup RecordDevices

----------------------------------------------------------------------------
(* State of one call volume_id_probe_ntfs(id, off, size).                  *)

VARIABLES
    disk,            \* the probed device (never written by the probe)
    off,             \* parameter off
    pc,              \* position of the call
    ret,             \* return value: 0, -1, or "none" while running
    ns,              \* boot sector view
    sector_size, cluster_size, mft_off, mft_record_size,
    buf,             \* metadata record view
    attr_off,
    id,              \* struct volume_id: the fields the probe writes
    fetches,         \* calls of volume_id_get_buffer: <<offset, length>>
    hdr_reads,       \* offsets at which an attribute header was read
    val_reads        \* value reads: [kind, at, from, n, val_len]

vars == <<disk, off, pc, ret, ns, sector_size, cluster_size, mft_off,
          mft_record_size, buf, attr_off, id, fetches, hdr_reads, val_reads>>

NullView == [null |-> TRUE, bytes |-> <<>>, len |-> 0, mapped |-> 0, fill |-> 0]

View(bytes, len, slack, fill) ==
    [null |-> FALSE, bytes |-> bytes, len |-> len, mapped |-> len + slack,
     fill |-> fill]

\* byte at 0-based index i of the memory a view points into
MemByte(b, i) ==
    IF i < Len(b.bytes) THEN b.bytes[i + 1]
    ELSE IF i < b.len THEN 0 ELSE b.fill

MemBytes(b, i, n) == [k \in 1..n |-> MemByte(b, i + k - 1)]

\* a read of n bytes at i does not fault
Readable(b, i, n) == n = 0 \/ i + n <= b.mapped

\* a read of n bytes at i stays inside the bytes the Buffer Source returned
InView(b, i, n) == i + n <= b.len

Le16At(b, i) == LeValue(MemBytes(b, i, 2))
Le32At(b, i) == U32(Le16At(b, i), Le16At(b, i + 2))

\* le16_to_cpu applied to a 32-bit field: the 16-bit value
Le16ToCpu(u) == u.lo

EmptyId ==
    [type |-> "", usage |-> "", uuid |-> <<>>, label_raw |-> <<>>,
     label |-> <<>>, type_version |-> <<>>]

Init ==
    /\ disk \in Devices
    /\ off = disk.off
    /\ pc = "get_boot"
    /\ ret = "none"
    /\ ns = [null |-> TRUE]
    /\ sector_size = 0
    /\ cluster_size = 0
    /\ mft_off = 0
    /\ mft_record_size = 0
    /\ buf = NullView
    /\ attr_off = 0
    /\ id = EmptyId
    /\ fetches = <<>>
    /\ hdr_reads = <<>>
    /\ val_reads = <<>>

----------------------------------------------------------------------------
(* Lines 109-119: boot sector fetch and signature.                         *)

\* ns = volume_id_get_buffer(id, off, 0x200); NULL returns -1
GetBoot ==
    /\ pc = "get_boot"
    /\ fetches' = Append(fetches, <<off, 512>>)
    /\ IF disk.boot_avail
       THEN /\ ns' = [null |-> FALSE] @@ disk.boot
            /\ pc' = "signature"
            /\ ret' = ret
       ELSE /\ ns' = ns
            /\ pc' = "done"
            /\ ret' = -1
    /\ UNCHANGED <<disk, off, sector_size, cluster_size, mft_off,
                   mft_record_size, buf, attr_off, id, hdr_reads, val_reads>>

\* mutant: the comparison stops one byte short
SignatureMatchesThree(b) == SubSeq(b.oem_id, 1, 3) = SubSeq(NtfsTag, 1, 3)

\* memcmp(ns->oem_id, "NTFS", 4) == 0
SignatureMatches(b) == SubSeq(b.oem_id, 1, 4) = NtfsTag

\* volume_id_set_uuid(id, buf, 0, UUID_64BIT_LE): the 8 bytes as a
\* little-endian 64-bit identifier, most significant byte first
Uuid64Le(bytes) == [i \in 1..8 |-> bytes[9 - i]]

CheckSignature ==
    /\ pc = "signature"
    /\ IF SignatureMatches(ns)
       THEN /\ id' = [id EXCEPT !.uuid = Uuid64Le(ns.volume_serial)]
            /\ pc' = "geometry"
            /\ ret' = ret
       ELSE /\ id' = id
            /\ pc' = "done"
            /\ ret' = -1
    /\ UNCHANGED <<disk, off, ns, sector_size, cluster_size, mft_off,
                   mft_record_size, buf, attr_off, fetches, hdr_reads,
                   val_reads>>

----------------------------------------------------------------------------
(* Lines 121-132: geometry.                                                *)

\* 1 << n on a 32-bit int.  Defined for n <= 30.  For n >= 32 the shift is
\* undefined: the builds in use give 0 (folded) or 1 << (n mod 32) (x86).
\* n = 31 (and n mod 32 = 31) gives 2^31, which the model's integers cannot
\* hold; the devices of the model do not use it.
ShiftLeftOne(n) ==
    IF n <= 30 THEN { 2 ^ n } ELSE { 0, 2 ^ (n % 32) }

\* lines 126-132
MftRecordSizes(cpr, cl) ==
    IF Int8(cpr) < 0 THEN ShiftLeftOne(-Int8(cpr)) ELSE { Int8(cpr) * cl }

\* line 122
ClusterSize(spc, ss) == spc * ss

Geometry ==
    /\ pc = "geometry"
    /\ sector_size' = LeValue(ns.bytes_per_sector)
    /\ cluster_size' = ClusterSize(ns.sectors_per_cluster, sector_size')
    /\ mft_off' = LeValue(ns.mft_cluster_location) * cluster_size'
    /\ mft_record_size' \in MftRecordSizes(ns.cluster_per_mft_record, cluster_size')
    /\ pc' = "fetch"
    /\ UNCHANGED <<disk, off, ret, ns, buf, attr_off, id, fetches, hdr_reads,
                   val_reads>>

----------------------------------------------------------------------------
(* Lines 141-157: metadata record fetch, magic, first attribute offset.    *)

\* line 141: the offset asked of volume_id_get_buffer
RecordOffset(o, mo, rs) == o + mo + MFT_RECORD_VOLUME * rs

\* volume_id_get_buffer(id, at, len) on the device
GetBuffer(at, len) ==
    IF ~disk.rec_avail THEN NullView
    ELSE View(IF at = disk.rec_addr THEN disk.image ELSE <<>>, len,
              disk.slack, disk.fill)

FetchRecord ==
    /\ pc = "fetch"
    /\ LET at == RecordOffset(off, mft_off, mft_record_size)
       IN /\ fetches' = Append(fetches, <<at, mft_record_size>>)
          /\ buf' = GetBuffer(at, mft_record_size)
    /\ pc' = IF buf'.null THEN "found" ELSE "magic"
    /\ UNCHANGED <<disk, off, ret, ns, sector_size, cluster_size, mft_off,
                   mft_record_size, attr_off, id, hdr_reads, val_reads>>

Min(a, b) == IF a < b THEN a ELSE b

\* memcmp(mftr->magic, "FILE", 4) == 0 on readable memory
MagicMatches(b) == MemBytes(b, 0, 4) = FileTag

\* lines 152-156.  A memcmp that runs into unmapped memory faults, unless
\* it has met a differing byte before.
CheckMagic ==
    /\ pc = "magic"
    /\ IF ~Readable(buf, 0, 4)
       THEN /\ pc' \in { "crashed" } \cup
                   (IF MemBytes(buf, 0, Min(4, buf.mapped))
                         # SubSeq(FileTag, 1, Min(4, buf.mapped))
                    THEN { "found" } ELSE {})
            /\ attr_off' = attr_off
       ELSE IF ~MagicMatches(buf)
       THEN /\ pc' = "found"
            /\ attr_off' = attr_off
       ELSE IF ~Readable(buf, MftrAttrsOffsetAt, 2)
       THEN /\ pc' = "crashed"
            /\ attr_off' = attr_off
       ELSE /\ pc' = "walk"
            /\ attr_off' = Le16At(buf, MftrAttrsOffsetAt)
    /\ UNCHANGED <<disk, off, ret, ns, sector_size, cluster_size, mft_off,
                   mft_record_size, buf, id, fetches, hdr_reads, val_reads>>

----------------------------------------------------------------------------
(* Lines 159-200: the attribute walk, one loop iteration per step.         *)

\* mutant: the end-marker test is missing
WalkEndsNoEndMarker(attr_type, attr_len, next_off, record_size) ==
    \/ attr_len = 0
    \/ next_off >= record_size

\* lines 167-177, tested after attr_off += attr_len
WalkEnds(attr_type, attr_len, next_off, record_size) ==
    \/ attr_len = 0
    \/ next_off >= record_size
    \/ attr_type = MFT_RECORD_ATTR_END

\* mutant: the clamp is missing
UnclampedLabelLen(val_len) == val_len.lo

\* lines 192-194: val_len clamped to VOLUME_ID_LABEL_SIZE
ClampLabelLen(val_len) ==
    IF val_len.hi > 0 \/ val_len.lo > VOLUME_ID_LABEL_SIZE
    THEN VOLUME_ID_LABEL_SIZE ELSE val_len.lo

\* mutant: the 8 reserved bytes of struct volume_info are not skipped
VolumeInfoAtValueStart(at, val_off) == at + val_off

\* line 184 and 186: where major_ver and minor_ver are read
VolumeInfoAt(at, val_off) == at + val_off + InfoMajorAt

Digits == <<"0", "1", "2", "3", "4", "5", "6", "7", "8", "9">>

RECURSIVE Dec(_)
\* "%u" of a byte
Dec(n) == IF n < 10 THEN <<Digits[n + 1]>>
          ELSE Dec(n \div 10) \o <<Digits[(n % 10) + 1]>>

\* line 185: snprintf(.., "%u.%u", info->major_ver, info->minor_ver)
FormatVersion(major, minor) == Dec(major) \o <<".">> \o Dec(minor)

\* volume_id_set_label_raw(id, val, count)
SetLabelRaw(b, from, count) == MemBytes(b, from, count)

\* volume_id_set_label_unicode16(id, val, LE, count): the bytes as
\* little-endian 16-bit code units
SetLabelUnicode16(b, from, count) ==
    [k \in 1..(count \div 2) |-> Le16At(b, from + 2 * (k - 1))]

ValRead(kind, at, from, n) ==
    [kind |-> kind, at |-> at, from |-> from, n |-> n]

WalkStep ==
    /\ pc = "walk"
    /\ hdr_reads' = Append(hdr_reads, attr_off)
    /\ IF ~Readable(buf, attr_off, AttrHeaderSize)
       THEN /\ pc' = "crashed"
            /\ UNCHANGED <<attr_off, id, val_reads>>
       ELSE LET attr_type == Le32At(buf, attr_off)
                attr_len == Le16ToCpu(Le32At(buf, attr_off + 4))
                val_off == Le16At(buf, attr_off + AttrValueOffsetAt)
                val_len == Le32At(buf, attr_off + AttrValueLenAt)
                next_off == attr_off + attr_len
                info_at == VolumeInfoAt(attr_off, val_off)
                count == ClampLabelLen(val_len)
                val == attr_off + val_off
            IN  /\ attr_off' = next_off
                /\ IF WalkEnds(attr_type, attr_len, next_off, mft_record_size)
                   THEN /\ pc' = "found"
                        /\ UNCHANGED <<id, val_reads>>
                   ELSE IF attr_type = MFT_RECORD_ATTR_VOLUME_INFO
                   THEN /\ val_reads' =
                              Append(val_reads, ValRead("info", attr_off, info_at, 2))
                        /\ IF Readable(buf, info_at, 2)
                           THEN /\ id' = [id EXCEPT !.type_version =
                                            FormatVersion(MemByte(buf, info_at),
                                                          MemByte(buf, info_at + 1))]
                                /\ pc' = "walk"
                           ELSE /\ id' = id
                                /\ pc' = "crashed"
                   ELSE IF attr_type = MFT_RECORD_ATTR_VOLUME_NAME
                   THEN /\ val_reads' =
                              Append(val_reads, ValRead("name", attr_off, val, count))
                        /\ IF Readable(buf, val, count)
                           THEN /\ id' = [id EXCEPT
                                            !.label_raw = SetLabelRaw(buf, val, count),
                                            !.label = SetLabelUnicode16(buf, val, count)]
                                /\ pc' = "walk"
                           ELSE /\ id' = id
                                /\ pc' = "crashed"
                   ELSE /\ pc' = "walk"
                        /\ UNCHANGED <<id, val_reads>>
    /\ UNCHANGED <<disk, off, ret, ns, sector_size, cluster_size, mft_off,
                   mft_record_size, buf, fetches>>

\* lines 202-206
Found ==
    /\ pc = "found"
    /\ id' = [id EXCEPT !.usage = "filesystem", !.type = "ntfs"]
    /\ ret' = 0
    /\ pc' = "done"
    /\ UNCHANGED <<disk, off, ns, sector_size, cluster_size, mft_off,
                   mft_record_size, buf, attr_off, fetches, hdr_reads,
                   val_reads>>

Next ==
    \/ GetBoot
    \/ CheckSignature
    \/ Geometry
    \/ FetchRecord
    \/ CheckMagic
    \/ WalkStep
    \/ Found

Spec == Init /\ [][Next]_vars

\* the call is one sequential function: a step that can be taken is taken
FairSpec == Spec /\ WF_vars(Next)

----------------------------------------------------------------------------
(* Properties.                                                             *)

\* the first four bytes of the name field on the device are "NTFS"
BootTagged == SubSeq(disk.boot.oem_id, 1, 4) = NtfsTag

\* the call got past the signature test
SignatureMatched == disk.boot_avail /\ BootTagged /\ pc # "get_boot" /\ pc # "signature"

GeometryDone == SignatureMatched /\ pc # "geometry"

\* C1: every attribute header the walk reads (the first one, at the
\* record's attrs_offset, included) lies wholly inside the record buffer:
\* offset + sizeof(header) <= record_size at the time of the read.
C1_HeadersInView ==
    \A i \in 1..Len(hdr_reads) : InView(buf, hdr_reads[i], AttrHeaderSize)

\* C2: the value bytes of every VOLUME_INFO / VOLUME_NAME attribute the
\* walk processes are read only from inside the record buffer; a value
\* that reaches past it is skipped.
C2_ValuesInView ==
    \A i \in 1..Len(val_reads) :
        val_reads[i].n > 0 => InView(buf, val_reads[i].from, val_reads[i].n)

\* C3: with a correct signature and a zero sector_size, cluster_size or
\* record_size the probe returns no match and fetches no metadata record.
C3_ZeroGeometryNoMatch ==
    (GeometryDone /\ (sector_size = 0 \/ cluster_size = 0 \/ mft_record_size = 0))
        => /\ Len(fetches) = 1
           /\ pc \in { "fetch", "done" }
           /\ pc = "done" => ret = -1

\* what the probe leaves behind when it reports no match
NoMatchUntouched ==
    /\ ret = -1
    /\ id = EmptyId
    /\ fetches = << <<off, 512>> >>

\* C4 as stated: boot sector unavailable, or the 8-byte name field differs
\* from the signature "NTFS    ": no match, Identity Result untouched, the
\* 512-byte fetch at the extent offset is the only fetch.
C4_NameFieldDiffers ==
    (pc = "done" /\ (~disk.boot_avail \/ disk.boot.oem_id # OemNtfs))
        => NoMatchUntouched

\* C4 as amended: boot sector unavailable, or the first four bytes of the
\* name field differ from "NTFS": no match, Identity Result untouched, the
\* 512-byte fetch at the extent offset is the only fetch.
C4_TagDiffers ==
    (pc \in { "done", "crashed" } /\ (~disk.boot_avail \/ ~BootTagged))
        => pc = "done" /\ NoMatchUntouched

C4_Witness ==
    /\ pc = "done"
    /\ disk.boot_avail
    /\ disk.boot.oem_id = <<78, 84, 70, 81, 32, 32, 32, 32>>
    /\ NoMatchUntouched

\* C5: once the signature matched, the call ends as a match with
\* kind "ntfs", usage filesystem and the uuid of the 8 serial bytes, on
\* every path and whatever the rest of the device holds; when the record
\* fetch is unavailable or the magic is not "FILE", label and version stay
\* absent.
C5_MatchOnEveryPath ==
    (SignatureMatched /\ pc \in { "done", "crashed" })
        => /\ pc = "done"
           /\ ret = 0
           /\ id.type = "ntfs"
           /\ id.usage = "filesystem"
           /\ \A i \in 1..8 : id.uuid[i] = disk.boot.volume_serial[9 - i]
           /\ (buf.null \/ MemBytes(buf, 0, 4) # FileTag)
                 => /\ id.label_raw = <<>>
                    /\ id.label = <<>>
                    /\ id.type_version = <<>>

\* the entry at `at' meets one of the three termination conditions
Terminator(at) ==
    LET len == Le16At(buf, at + 4)
    IN  \/ len = 0
        \/ at + len >= mft_record_size
        \/ Le32At(buf, at) = U32(65535, 65535)

\* C6: the walk ends at the first entry with total_length = 0, or
\* offset + total_length >= record_size, or type = 0xffffffff: from that
\* entry nothing is extracted, no further header is read and nothing after
\* it reaches version or label; an entry meeting none of the three does not
\* end the walk.
C6_WalkEndsAtTerminator ==
    [][ /\ (pc = "walk" /\ Readable(buf, attr_off, AttrHeaderSize) /\ Terminator(attr_off))
           => /\ pc' = "found"
              /\ id' = id
              /\ val_reads' = val_reads
              /\ hdr_reads' = Append(hdr_reads, attr_off)
        /\ (pc = "walk" /\ Readable(buf, attr_off, AttrHeaderSize) /\ ~Terminator(attr_off))
           => /\ pc' \in { "walk", "crashed" }
              /\ attr_off' = attr_off + Le16At(buf, attr_off + 4)
        /\ pc \in { "found", "done" }
           => /\ hdr_reads' = hdr_reads
              /\ val_reads' = val_reads
              /\ id'.label_raw = id.label_raw
              /\ id'.label = id.label
              /\ id'.type_version = id.type_version ]_vars

C6_Witness ==
    /\ pc = "found"
    /\ Len(hdr_reads) = 2
    /\ Len(val_reads) = 1
    /\ Le32At(buf, hdr_reads[2]) = U32(65535, 65535)
    /\ Le16At(buf, hdr_reads[2] + 4) = 8
    /\ hdr_reads[2] + 8 < mft_record_size
    /\ Le32At(buf, hdr_reads[2] + 8) = MFT_RECORD_ATTR_VOLUME_NAME
    /\ id.type_version = <<"3", ".", "1">>
    /\ id.label = <<>>

\* C7: record_size is 1 << n for a size byte -n and byte * cluster_size
\* for a non-negative byte, cluster_size being sectors_per_cluster *
\* sector_size, for every value of the byte, with no wrap-around and no
\* undefined shift (a 32-bit value is 2^n only for n < 32; the devices of
\* the model use n <= 30 or n >= 32).
C7_RecordSize ==
    GeometryDone =>
        LET b == Int8(disk.boot.cluster_per_mft_record)
        IN  /\ cluster_size
                 = disk.boot.sectors_per_cluster * LeValue(disk.boot.bytes_per_sector)
            /\ IF b < 0
               THEN -b <= 30 /\ mft_record_size = 2 ^ (-b)
               ELSE mft_record_size = b * cluster_size

\* min(v, VOLUME_ID_LABEL_SIZE) of a 32-bit value
MinLabel(v) ==
    IF v.hi = 0 /\ v.lo < VOLUME_ID_LABEL_SIZE THEN v.lo ELSE VOLUME_ID_LABEL_SIZE

\* C8: the count handed to the raw copy and to the 16-bit decode of every
\* VOLUME_NAME attribute is min(on-disk value_length, maximum label size),
\* and the stored label never exceeds the maximum label size.
C8_LabelClamped ==
    /\ \A i \in 1..Len(val_reads) :
          val_reads[i].kind = "name"
             => val_reads[i].n
                  = MinLabel(Le32At(buf, val_reads[i].at + AttrValueLenAt))
    /\ Len(id.label_raw) <= VOLUME_ID_LABEL_SIZE
    /\ 2 * Len(id.label) <= VOLUME_ID_LABEL_SIZE

C8_Witness ==
    /\ \E i \in 1..Len(val_reads) :
          /\ val_reads[i].kind = "name"
          /\ Le32At(buf, val_reads[i].at + AttrValueLenAt) = U32(80, 0)
    /\ Len(id.label_raw) = VOLUME_ID_LABEL_SIZE
    /\ 2 * Len(id.label) = VOLUME_ID_LABEL_SIZE
    /\ id.label[1] = 65

\* offset of the k-th attribute of a crafted record (k - 1 lengths added)
RECURSIVE AttrStart(_, _)
AttrStart(src, k) ==
    IF k = 1 THEN src.attrs_offset
    ELSE AttrStart(src, k - 1) + src.chain[k - 1].len.lo

\* record size the on-disk convention gives a well-formed boot sector
TrueRecordSize(boot) ==
    LET b == Int8(boot.cluster_per_mft_record)
    IN  IF b < 0 THEN 2 ^ (-b)
        ELSE b * boot.sectors_per_cluster * LeValue(boot.bytes_per_sector)

\* a fully valid volume: signature, sane geometry, record 3 present with
\* magic "FILE", and an in-bounds chain of well-formed resident attributes
\* among which exactly one VOLUME_INFO and one VOLUME_NAME, followed by room
\* for the terminating entry
ValidVolume ==
    LET src == disk.src
        n == Len(src.chain)
        b == Int8(disk.boot.cluster_per_mft_record)
    IN  /\ disk.boot_avail /\ disk.rec_avail /\ BootTagged
        /\ LeValue(disk.boot.bytes_per_sector) > 0
        /\ disk.boot.sectors_per_cluster > 0
        /\ b # 0 /\ b >= -30
        /\ src.magic = FileTag
        /\ src.attrs_offset >= 32
        /\ AttrStart(src, n + 1) + AttrHeaderSize <= TrueRecordSize(disk.boot)
        /\ AttrStart(src, n + 1) <= ContentLen
        /\ \A k \in 1..n :
              LET t == src.chain[k]
              IN  /\ t.type # MFT_RECORD_ATTR_END
                  /\ t.len.hi = 0 /\ t.len.lo >= AttrHeaderSize
                  /\ t.val_len.hi = 0
                  /\ t.val_off >= AttrHeaderSize
                  /\ t.val_off + t.val_len.lo <= t.len.lo
                  /\ Len(t.payload) = t.val_len.lo
                  /\ t.type = MFT_RECORD_ATTR_VOLUME_INFO => t.val_len.lo >= 10
                  /\ t.type = MFT_RECORD_ATTR_VOLUME_NAME
                        => t.val_len.lo <= VOLUME_ID_LABEL_SIZE
        /\ Cardinality({ k \in 1..n : src.chain[k].type = MFT_RECORD_ATTR_VOLUME_INFO }) = 1
        /\ Cardinality({ k \in 1..n : src.chain[k].type = MFT_RECORD_ATTR_VOLUME_NAME }) = 1

InfoOf(src) ==
    src.chain[CHOOSE k \in 1..Len(src.chain) :
                 src.chain[k].type = MFT_RECORD_ATTR_VOLUME_INFO]

NameOf(src) ==
    src.chain[CHOOSE k \in 1..Len(src.chain) :
                 src.chain[k].type = MFT_RECORD_ATTR_VOLUME_NAME]

\* C9: on a fully valid volume the probe fetches record 3 at
\* off + metadata_table_offset + 3 * record_size and returns match with
\* kind "ntfs", version "major.minor" of the VOLUME_INFO attribute and the
\* decoded name of the VOLUME_NAME attribute (3, 1, "DATA" give "3.1" and
\* "DATA").
C9_ValidVolume ==
    (ValidVolume /\ pc \in { "done", "crashed" })
        => /\ pc = "done"
           /\ ret = 0
           /\ id.type = "ntfs"
           /\ fetches = << <<off, 512>>,
                           <<disk.rec_addr, TrueRecordSize(disk.boot)>> >>
           /\ id.type_version
                = Dec(InfoOf(disk.src).payload[9]) \o <<".">>
                    \o Dec(InfoOf(disk.src).payload[10])
           /\ InfoOf(disk.src).payload = InfoPayload(3, 1)
                 => id.type_version = <<"3", ".", "1">>
           /\ InfoOf(disk.src).payload = InfoPayload(1, 20)
                 => id.type_version = <<"1", ".", "2", "0">>
           /\ Len(id.label) = Len(NameOf(disk.src).payload) \div 2
           /\ \A k \in 1..Len(id.label) :
                 id.label[k] = NameOf(disk.src).payload[2 * k - 1]
                                 + 256 * NameOf(disk.src).payload[2 * k]
           /\ NameOf(disk.src).payload = DataName
                 => id.label = <<68, 65, 84, 65>>

C9_Witness ==
    /\ ValidVolume
    /\ pc = "done"
    /\ ret = 0
    /\ id.type = "ntfs"
    /\ id.type_version = <<"3", ".", "1">>
    /\ id.label = <<68, 65, 84, 65>>
    /\ Len(hdr_reads) = 3

\* C10: the walk loop terminates for every record and record_size, and the
\* call always reaches result finalization: once in the walk, the call has
\* returned or can take its next step.
C10_ReachesFinalization ==
    (pc = "walk" \/ Len(hdr_reads) > 0) => (pc = "done" \/ ENABLED Next)

\* the same as a liveness property, for FairSpec
WalkLeadsToDone == (pc = "walk") ~> (pc = "done")

\* each iteration that does not end the walk moves the offset strictly
\* forward and leaves it below record_size
WalkAdvances ==
    [][(pc = "walk" /\ pc' = "walk")
          => attr_off' > attr_off /\ attr_off' < mft_record_size]_vars

=============================================================================
